---- MODULE Spec2Model ----
(***************************************************************************)
(* A state-machine model of src/src/chat.ts: the AppOnFirebase engine, its *)
(* RoomImpl objects, and the asynchronous boundary to the Firebase store   *)
(* and auth collaborators.  Every JavaScript handler (a public method, a   *)
(* store notification, a promise continuation, the update microtask) runs  *)
(* to completion and is one action.  A handler is written as a function    *)
(* from the program state (a record, "world") to the program state, so     *)
(* that handlers calling handlers compose as they do in the source.        *)
(***************************************************************************)
EXTENDS Integers, Sequences, FiniteSets, TLC

(***************************************************************************)
(* Bounds of the model.                                                    *)
(***************************************************************************)
MaxObjs == 2     \* RoomImpl objects constructed in one run
MaxMsgs == 2     \* message ids pushed to the store in one run
MaxFetch == 1    \* outstanding membership fetches per (room object, uid)
MaxCalls == 2    \* the count of updateListeners calls saturates here

(***************************************************************************)
(* Value domains.                                                          *)
(***************************************************************************)
Rids == {"r1", "r2"}             \* keys under 'rooms'
Uids == {"u1", "u2"}             \* firebase.User.uid values
NoUid == "undefined"             \* this.uid after `delete this.uid`
Observers == {"o1", "o2"}        \* Listener<AppState> functions
NoListener == "undefined"        \* this.listener after `delete this.listener`
NoRoom == 0                      \* null (objects are numbered from 1)
NoNick == ""                     \* a falsy nicknameOf entry / displayName
ApiNicks == {"bob"}              \* names the UI passes to setNickname
RemoteNicks == {"carol"}         \* nicknames other clients write

\* firebase.User.displayName of each account (u2 has none).
DisplayName == [u \in Uids |-> IF u = "u1" THEN "alice" ELSE NoNick]

\* snapshot.val() of a membership path that holds nothing.
NoMember == [nickname |-> "null", role |-> "null"]

NoExc == ""
ErrCreate == "Must be siged in to create a room."
ErrSend == "Must be siged in to send a message."
ErrPath == "Reference.child failed: First argument was an invalid path"
ErrType == "Cannot read property 'nickname' of null"
ErrStore == "PERMISSION_DENIED"
CantSelect == [r \in Rids |-> IF r = "r1" THEN "Can't select room: r1"
                                           ELSE "Can't select room: r2"]

VARIABLES
  uid,            \* AppOnFirebase.uid
  nickname,       \* state.nickname
  rooms,          \* state.rooms: a sequence of RoomImpl objects
  currentRoom,    \* state.currentRoom
  latestError,    \* state.latestError
  listener,       \* AppOnFirebase.listener
  pendingUpdate,  \* AppOnFirebase.pendingUpdate
  heap,           \* the RoomImpl objects ever constructed; index = identity
  tasks,          \* update callbacks queued by Promise.resolve().then(...)
  members,        \* store: members/<rid>/<uid>
  messages,       \* store: messages/<rid>, a set of [mid, from]
  usedRids,       \* store: every key 'rooms' ever held (push() keys are fresh)
  nextMid,        \* store: the next push() key under messages
  memberFetch,    \* once('value') reads issued by a room's user listener
  nickFetch,      \* once('value') reads issued by ensureMessage
  creating,       \* createRoom promise chains in flight
  deleting,       \* deleteRoom room-record deletions in flight
  handles,        \* observers holding an Unlisten closure not yet called
  uncaught,       \* exceptions on their way to the window 'error' listener
  calls,          \* history: updateListeners calls since the callback last ran
  invoked,        \* history: the observer the step just taken invoked, and
                  \* the snapshot it was handed
  lastListened,   \* history: the observer most recently passed to listen()
  greeted,        \* history: the current observer was invoked since listen()
  doomed          \* history: the room deleteRoom() was last called on while
                  \* it was the selected room

vars == <<uid, nickname, rooms, currentRoom, latestError, listener,
          pendingUpdate, heap, tasks, members, messages, usedRids, nextMid,
          memberFetch, nickFetch, creating, deleting, handles, uncaught,
          calls, invoked, lastListened, greeted, doomed>>

\* The program state as one value; exc is the exception a handler is
\* unwinding with (NoExc between handlers).
World ==
  [uid |-> uid, nickname |-> nickname, rooms |-> rooms,
   currentRoom |-> currentRoom, latestError |-> latestError,
   listener |-> listener, pendingUpdate |-> pendingUpdate, heap |-> heap,
   tasks |-> tasks, members |-> members, messages |-> messages,
   usedRids |-> usedRids, nextMid |-> nextMid, memberFetch |-> memberFetch,
   nickFetch |-> nickFetch, creating |-> creating, deleting |-> deleting,
   handles |-> handles, uncaught |-> uncaught, calls |-> calls,
   lastListened |-> lastListened, greeted |-> greeted, doomed |-> doomed,
   exc |-> NoExc]

\* No observer invoked.
NoInvoke ==
  [to |-> NoListener,
   snap |-> [nickname |-> "", rooms |-> <<>>, currentRoom |-> NoRoom,
             latestError |-> ""]]

\* The state a handler leaves behind, and the observer invocation it made.
Effect(w, obs) ==
  /\ uid' = w.uid /\ nickname' = w.nickname /\ rooms' = w.rooms
  /\ currentRoom' = w.currentRoom /\ latestError' = w.latestError
  /\ listener' = w.listener /\ pendingUpdate' = w.pendingUpdate
  /\ heap' = w.heap /\ tasks' = w.tasks /\ members' = w.members
  /\ messages' = w.messages /\ usedRids' = w.usedRids
  /\ nextMid' = w.nextMid /\ memberFetch' = w.memberFetch
  /\ nickFetch' = w.nickFetch /\ creating' = w.creating
  /\ deleting' = w.deleting /\ handles' = w.handles
  /\ uncaught' = w.uncaught /\ calls' = w.calls
  /\ lastListened' = w.lastListened /\ greeted' = w.greeted
  /\ doomed' = w.doomed
  /\ invoked' = obs

\* A handler that invokes no observer.
Commit(w) == Effect(w, NoInvoke)

Objs == 1..Len(heap)

Init ==
  /\ uid = NoUid /\ nickname = "anonymous" /\ rooms = <<>>
  /\ currentRoom = NoRoom /\ latestError = "" /\ listener = NoListener
  /\ pendingUpdate = FALSE /\ heap = <<>> /\ tasks = 0
  /\ members = [r \in Rids |-> [u \in Uids |-> NoMember]]
  /\ messages = [r \in Rids |-> {}]
  /\ usedRids = {} /\ nextMid = 1
  /\ memberFetch = [o \in 1..MaxObjs |-> [u \in Uids |-> 0]]
  /\ nickFetch = {} /\ creating = {} /\ deleting = {}
  /\ handles = {} /\ uncaught = {}
  /\ calls = 0 /\ invoked = NoInvoke /\ lastListened = NoListener
  /\ greeted = FALSE /\ doomed = NoRoom

(***************************************************************************)
(* AppOnFirebase: notification                                             *)
(***************************************************************************)
getState(w) ==
  [nickname |-> w.nickname, rooms |-> w.rooms,
   currentRoom |-> w.currentRoom, latestError |-> w.latestError]

\* Mutant of updateListeners: the pendingUpdate test is dropped, every call
\* queues a callback.
updateListeners_alwaysQueue(w) ==
  [w EXCEPT !.calls = IF @ < MaxCalls THEN @ + 1 ELSE @,
            !.pendingUpdate = TRUE, !.tasks = @ + 1]

updateListeners(w) ==
  LET c == [w EXCEPT !.calls = IF @ < MaxCalls THEN @ + 1 ELSE @]
  IN IF c.pendingUpdate
       THEN c
       ELSE [c EXCEPT !.pendingUpdate = TRUE, !.tasks = @ + 1]

displayError(w, msg) == updateListeners([w EXCEPT !.latestError = msg])

setNickname(w, name) == updateListeners([w EXCEPT !.nickname = name])

\* Mutant of listen: the observer is stored and no notification requested.
listen_noUpdate(w, o) ==
  [w EXCEPT !.listener = o, !.handles = @ \cup {o},
            !.lastListened = o, !.greeted = FALSE]

listen(w, o) ==
  updateListeners([w EXCEPT !.listener = o, !.handles = @ \cup {o},
                            !.lastListened = o, !.greeted = FALSE])

\* The callback updateListeners() queues; it hands getState() to the
\* observer registered at that moment (Effect records who was invoked).
runUpdate(w) ==
  [w EXCEPT !.tasks = @ - 1, !.pendingUpdate = FALSE, !.calls = 0,
            !.greeted = @ \/ w.listener # NoListener]

\* if (this.listener) { this.listener(this.getState()); }
notify(w) ==
  IF w.listener # NoListener
    THEN [to |-> w.listener, snap |-> getState(w)]
    ELSE NoInvoke

\* The closure listen() returned to observer o: `delete this.listener`.
\* The closure names no observer; o only marks whose closure was used up
\* (a caller unsubscribes once).
unlisten(w, o) ==
  [w EXCEPT !.listener = NoListener, !.greeted = FALSE,
            !.handles = @ \ {o}]

(***************************************************************************)
(* RoomImpl: membership                                                    *)
(***************************************************************************)
setUnknownMembership(w, obj) ==
  [w EXCEPT !.heap[obj].role = "", !.heap[obj].nickname = "unknown"]

\* getMemberRef(rid, uid): ref('members').child(rid).child(uid).  With no
\* uid argument and this.uid deleted, child(undefined) is rejected by the
\* store client's path validation, which throws.  The result is the
\* exception raised (NoExc: the reference was built).
getMemberRef(w, rid, u) == IF u = NoUid THEN ErrPath ELSE NoExc

\* The listener each RoomImpl registers on userListenable (the identity
\* stream), for one emitted user.
roomOnUser(w, obj, u) ==
  IF u = NoUid
    THEN updateListeners(setUnknownMembership(w, obj))
    ELSE [w EXCEPT !.memberFetch[obj][u] = @ + 1]

\* The once('value') callback of that listener.
memberFetched(w, obj, u) ==
  LET member == w.members[w.heap[obj].rid][u]
      w1 == [w EXCEPT !.memberFetch[obj][u] = @ - 1]
      w2 == IF member # NoMember
              THEN [w1 EXCEPT !.heap[obj].role = member.role,
                              !.heap[obj].nickname = member.nickname]
              ELSE setUnknownMembership(w1, obj)
  IN updateListeners(w2)

\* The .catch of that read.
memberFetchFailed(w, obj, u) ==
  displayError([w EXCEPT !.memberFetch[obj][u] = @ - 1], ErrStore)

\* new RoomImpl(app, rid, info).  replay: whether userListenable hands the
\* new listener the current user at once (it does so only for a user that
\* is signed in; before that there is nothing to fetch).
newRoomImpl(w, rid, replay) ==
  LET obj == Len(w.heap) + 1
      w1 == [w EXCEPT !.heap = Append(@,
                [rid |-> rid, role |-> "", nickname |-> "unknown",
                 messages |-> <<>>, hasMessage |-> {},
                 nicknameOf |-> [u \in Uids |-> NoNick],
                 messageQuery |-> FALSE])]
  IN IF replay /\ w.uid # NoUid THEN roomOnUser(w1, obj, w.uid) ELSE w1

ensureMember(w, obj) ==
  IF w.heap[obj].role = ""
    THEN LET rid == w.heap[obj].rid
             e == getMemberRef(w, rid, w.uid)
         IN IF e # NoExc
              THEN [w EXCEPT !.exc = e]
              ELSE [w EXCEPT !.members[rid][w.uid] =
                       [nickname |-> w.nickname, role |-> "member"]]
    ELSE w

(***************************************************************************)
(* RoomImpl: messages                                                      *)
(***************************************************************************)
listenForMessages(w, obj) ==
  IF w.heap[obj].messageQuery
    THEN w
    ELSE [w EXCEPT !.heap[obj].messageQuery = TRUE]

\* A stored Message: from is the field the UI shows; mid, author and lazy
\* are history fields (the key and the from value the store delivered, and
\* whether the nickname was not cached when the message was ingested).
addMessage(w, obj, mid, from) ==
  [w EXCEPT !.heap[obj].messages =
               Append(@, [from |-> from, mid |-> mid, author |-> from,
                          lazy |-> w.heap[obj].nicknameOf[from] = NoNick]),
            !.heap[obj].hasMessage = @ \cup {mid}]

\* Mutant of ensureMessage: the hasMessage test is dropped.
ensureMessage_noSeenTest(w, obj, mid, from) ==
  LET w1 == addMessage(w, obj, mid, from)
      idx == Len(w1.heap[obj].messages)
  IN IF w1.heap[obj].nicknameOf[from] # NoNick
       THEN updateListeners(
              [w1 EXCEPT !.heap[obj].messages[idx].from =
                            w1.heap[obj].nicknameOf[from]])
       ELSE [w1 EXCEPT !.nickFetch = @ \cup {<<obj, idx>>}]

ensureMessage(w, obj, mid, from) ==
  IF mid \in w.heap[obj].hasMessage
    THEN w
    ELSE LET w1 == addMessage(w, obj, mid, from)
             idx == Len(w1.heap[obj].messages)
         IN IF w1.heap[obj].nicknameOf[from] # NoNick
              THEN updateListeners(
                     [w1 EXCEPT !.heap[obj].messages[idx].from =
                                   w1.heap[obj].nicknameOf[from]])
              ELSE [w1 EXCEPT !.nickFetch = @ \cup {<<obj, idx>>}]

\* The once('value') callback of ensureMessage for the message stored at
\* idx.  A path holding nothing gives member = null, and member.nickname
\* throws inside the callback.
nickFetched(w, obj, idx) ==
  LET from == w.heap[obj].messages[idx].author
      member == w.members[w.heap[obj].rid][from]
      w1 == [w EXCEPT !.nickFetch = @ \ {<<obj, idx>>}]
  IN IF member = NoMember
       THEN [w1 EXCEPT !.uncaught = @ \cup {ErrType}]
       ELSE updateListeners(
              [w1 EXCEPT !.heap[obj].nicknameOf[from] = member.nickname,
                         !.heap[obj].messages[idx].from = member.nickname])

\* That read rejected: once() was given no cancel callback and its promise
\* has no handler, so no code of the engine runs.
nickFetchFailed(w, obj, idx) ==
  [w EXCEPT !.nickFetch = @ \ {<<obj, idx>>}]

\* Mutant of ensureSignedIn: the identity is not tested.
ensureSignedIn_noTest(w, msg) == NoExc

ensureSignedIn(w, msg) == IF w.uid = NoUid THEN msg ELSE NoExc

sendMessage(w, obj) ==
  LET e == ensureSignedIn(w, ErrSend)
      rid == w.heap[obj].rid
  IN IF e # NoExc
       THEN [w EXCEPT !.exc = e]
       ELSE [w EXCEPT !.messages[rid] =
                         @ \cup {[mid |-> w.nextMid, from |-> w.uid]},
                      !.nextMid = @ + 1]

(***************************************************************************)
(* AppOnFirebase: registry, selection                                      *)
(***************************************************************************)
findRoom(w, rid) ==
  LET hits == {i \in 1..Len(w.rooms) : w.heap[w.rooms[i]].rid = rid}
  IN IF hits = {}
       THEN NoRoom
       ELSE w.rooms[CHOOSE i \in hits : \A j \in hits : i <= j]

\* Mutant of onRoomAdded: the findRoom() lookup is dropped, every
\* notification constructs and pushes a Room.
onRoomAdded_noLookup(w, rid, replay) ==
  LET n == newRoomImpl(w, rid, replay)
  IN updateListeners([n EXCEPT !.rooms = Append(@, Len(n.heap))])

\* ref('rooms').on('child_added', ...)
onRoomAdded(w, rid, replay) ==
  LET room == findRoom(w, rid)
      w1 == IF room = NoRoom
              THEN LET n == newRoomImpl(w, rid, replay)
                   IN [n EXCEPT !.rooms = Append(@, Len(n.heap))]
              ELSE w
  IN updateListeners(w1)

\* this.state.rooms.splice(i, 1) for the first i holding room.
splice(list, room) ==
  LET i == CHOOSE k \in 1..Len(list) :
             list[k] = room /\ \A j \in 1..(k - 1) : list[j] # room
  IN SubSeq(list, 1, i - 1) \o SubSeq(list, i + 1, Len(list))

\* ref('rooms').on('child_removed', ...): the loop returns from the handler
\* as soon as it has spliced the room out, before updateListeners().
onRoomRemoved(w, rid) ==
  LET room == findRoom(w, rid)
  IN IF room # NoRoom
       THEN LET w1 == IF w.currentRoom = room
                        THEN [w EXCEPT !.currentRoom = NoRoom]
                        ELSE w
            IN IF \E i \in 1..Len(w1.rooms) : w1.rooms[i] = room
                 THEN [w1 EXCEPT !.rooms = splice(@, room)]
                 ELSE updateListeners(w1)
       ELSE w

selectRoom(w, room) ==
  IF room # NoRoom /\ room # w.currentRoom
    THEN LET w1 == [w EXCEPT !.currentRoom = room]
             w2 == ensureMember(w1, room)
         IN IF w2.exc # NoExc
              THEN w2
              ELSE updateListeners(listenForMessages(w2, room))
    ELSE w

(***************************************************************************)
(* AppOnFirebase: identity                                                 *)
(***************************************************************************)
RECURSIVE emitToRooms(_, _, _)
emitToRooms(w, u, obj) ==
  IF obj > Len(w.heap)
    THEN w
    ELSE emitToRooms(roomOnUser(w, obj, u), u, obj + 1)

\* One value emitted by userListenable: the engine's listener runs first,
\* then the listener of every RoomImpl constructed so far, in order.
onAuthStateChanged(w, u) ==
  LET w1 == IF u = NoUid
              THEN setNickname([w EXCEPT !.uid = NoUid], "anonymous")
              ELSE LET s == [w EXCEPT !.uid = u]
                   IN IF DisplayName[u] # NoNick
                        THEN setNickname(s, DisplayName[u])
                        ELSE s
  IN emitToRooms(w1, u, 1)

(***************************************************************************)
(* AppOnFirebase: createRoom, deleteRoom, the window 'error' listener      *)
(***************************************************************************)
\* createRoom(name) up to ref.set(roomInfo); rid is the key push() made.
createRoom(w, rid) ==
  LET e == ensureSignedIn(w, ErrCreate)
  IN IF e # NoExc
       THEN [w EXCEPT !.exc = e]
       ELSE [w EXCEPT !.usedRids = @ \cup {rid},
                      !.creating = @ \cup {[rid |-> rid, stage |-> "room",
                                            by |-> NoUid]}]

\* First .then of createRoom: the owner record is written for this.uid as
\* it is now; an exception here rejects the chain and reaches .catch.
roomSetAcked(w, c) ==
  LET e == getMemberRef(w, c.rid, w.uid)
      w1 == [w EXCEPT !.creating = @ \ {c}]
  IN IF e # NoExc
       THEN displayError(w1, e)
       ELSE [w1 EXCEPT !.members[c.rid][w.uid] =
                          [nickname |-> w.nickname, role |-> "owner"],
                       !.creating = @ \cup {[rid |-> c.rid,
                                             stage |-> "member",
                                             by |-> w.uid]}]

\* Second .then of createRoom.
memberSetAcked(w, c) ==
  LET w1 == [w EXCEPT !.creating = @ \ {c}]
      room == findRoom(w1, c.rid)
  IN IF room = NoRoom
       THEN displayError(w1, CantSelect[c.rid])
       ELSE LET s == selectRoom(w1, room)
            IN IF s.exc # NoExc
                 THEN displayError([s EXCEPT !.exc = NoExc], s.exc)
                 ELSE s

\* Mutant of createFailed: the rejection is dropped without a report.
createFailed_noReport(w, c) ==
  [w EXCEPT !.creating = @ \ {c}]

\* .catch of createRoom after a rejected write (a rejected owner record is
\* rolled back by the store client).
createFailed(w, c) ==
  LET w1 == [w EXCEPT !.creating = @ \ {c}]
      w2 == IF c.stage = "member"
              THEN [w1 EXCEPT !.members[c.rid][c.by] = NoMember]
              ELSE w1
  IN displayError(w2, ErrStore)

\* deleteRoom(room) up to the two set(null) calls it issues at once.
\* cleared: whether the store accepts the clearing of the message subtree;
\* its promise has no handler, so a rejection changes nothing.
deleteRoom(w, obj, cleared) ==
  LET rid == w.heap[obj].rid
  IN [w EXCEPT !.messages[rid] = IF cleared THEN {} ELSE @,
               !.deleting = @ \cup {rid},
               !.doomed = IF obj = w.currentRoom THEN obj ELSE @]

\* .then of deleteRoom: ref('members').child(rid).set(null).
roomDeleteAcked(w, rid) ==
  [w EXCEPT !.deleting = @ \ {rid},
            !.members[rid] = [u \in Uids |-> NoMember]]

\* Mutant of roomDeleteFailed: the membership subtree is deleted all the same.
roomDeleteFailed_stillDeletes(w, rid) ==
  displayError([w EXCEPT !.deleting = @ \ {rid},
                         !.members[rid] = [u \in Uids |-> NoMember]],
               ErrStore)

\* .catch of deleteRoom.
roomDeleteFailed(w, rid) ==
  displayError([w EXCEPT !.deleting = @ \ {rid}], ErrStore)

\* window.addEventListener('error', e => this.displayError(e)).
onWindowError(w, msg) ==
  displayError([w EXCEPT !.uncaught = @ \ {msg}], msg)

(***************************************************************************)
(* Actions                                                                 *)
(***************************************************************************)
\* A public method returns or throws to its caller in the UI, which either
\* catches the exception or lets it reach the window 'error' listener.
Return(w, caught) ==
  IF w.exc = NoExc
    THEN Commit(w)
    ELSE Commit([w EXCEPT !.exc = NoExc,
                          !.uncaught = IF caught THEN @ ELSE @ \cup {w.exc}])

AuthStateChanged(u) ==
  /\ \A obj \in Objs : u # NoUid => memberFetch[obj][u] < MaxFetch
  /\ Commit(onAuthStateChanged(World, u))

RoomChildAdded(rid, replay) ==
  /\ rid \in usedRids \/ \A c \in creating : c.rid # rid
  /\ findRoom(World, rid) = NoRoom => Len(heap) < MaxObjs
  /\ Commit(onRoomAdded([World EXCEPT !.usedRids = @ \cup {rid}], rid, replay))

RoomChildRemoved(rid) ==
  /\ rid \in usedRids
  /\ Commit(onRoomRemoved(World, rid))

Listen(o) == Commit(listen(World, o))

Unlisten(o) ==
  /\ o \in handles
  /\ Commit(unlisten(World, o))

RunUpdate ==
  /\ tasks > 0
  /\ Effect(runUpdate(World), notify(runUpdate(World)))

SetNickname(name) == Commit(setNickname(World, name))

SelectRoom(room, caught) == Return(selectRoom(World, room), caught)

CreateRoom(rid, caught) ==
  /\ rid \notin usedRids
  /\ Return(createRoom(World, rid), caught)

RoomSetAcked(c) ==
  /\ c \in creating /\ c.stage = "room"
  /\ Commit(roomSetAcked(World, c))

MemberSetAcked(c) ==
  /\ c \in creating /\ c.stage = "member"
  /\ Commit(memberSetAcked(World, c))

CreateFailed(c) ==
  /\ c \in creating
  /\ Commit(createFailed(World, c))

DeleteRoom(obj, cleared) == Commit(deleteRoom(World, obj, cleared))

RoomDeleteAcked(rid) ==
  /\ rid \in deleting
  /\ Commit(roomDeleteAcked(World, rid))

RoomDeleteFailed(rid) ==
  /\ rid \in deleting
  /\ Commit(roomDeleteFailed(World, rid))

SendMessage(obj, caught) ==
  /\ uid # NoUid => nextMid <= MaxMsgs
  /\ Return(sendMessage(World, obj), caught)

\* messageQuery.on('child_added', ...): the store may deliver a child of
\* messages/<rid> to a listening room any number of times.
MessageChildAdded(obj, m) ==
  /\ heap[obj].messageQuery
  /\ m \in messages[heap[obj].rid]
  /\ Commit(ensureMessage(World, obj, m.mid, m.from))

NickFetched(f) ==
  /\ f \in nickFetch
  /\ Commit(nickFetched(World, f[1], f[2]))

NickFetchFailed(f) ==
  /\ f \in nickFetch
  /\ Commit(nickFetchFailed(World, f[1], f[2]))

MemberFetched(obj, u) ==
  /\ memberFetch[obj][u] > 0
  /\ Commit(memberFetched(World, obj, u))

MemberFetchFailed(obj, u) ==
  /\ memberFetch[obj][u] > 0
  /\ Commit(memberFetchFailed(World, obj, u))

WindowError(msg) ==
  /\ msg \in uncaught
  /\ Commit(onWindowError(World, msg))

\* Another client writes a membership record.
RemoteMemberSet(rid, u, nick) ==
  /\ rid \in usedRids
  /\ Commit([World EXCEPT !.members[rid][u] =
                             [nickname |-> nick, role |-> "member"]])

Next ==
  \/ \E u \in Uids \cup {NoUid} : AuthStateChanged(u)
  \/ \E rid \in Rids, replay \in BOOLEAN : RoomChildAdded(rid, replay)
  \/ \E rid \in Rids : RoomChildRemoved(rid)
  \/ \E o \in Observers : Listen(o)
  \/ \E o \in Observers : Unlisten(o)
  \/ RunUpdate
  \/ \E name \in ApiNicks : SetNickname(name)
  \/ \E room \in Objs \cup {NoRoom}, caught \in BOOLEAN : SelectRoom(room, caught)
  \/ \E rid \in Rids, caught \in BOOLEAN : CreateRoom(rid, caught)
  \/ \E c \in creating : RoomSetAcked(c)
  \/ \E c \in creating : MemberSetAcked(c)
  \/ \E c \in creating : CreateFailed(c)
  \/ \E obj \in Objs, cleared \in BOOLEAN : DeleteRoom(obj, cleared)
  \/ \E rid \in Rids : RoomDeleteAcked(rid)
  \/ \E rid \in Rids : RoomDeleteFailed(rid)
  \/ \E obj \in Objs, caught \in BOOLEAN : SendMessage(obj, caught)
  \/ \E obj \in Objs : \E m \in messages[heap[obj].rid] : MessageChildAdded(obj, m)
  \/ \E f \in nickFetch : NickFetched(f)
  \/ \E f \in nickFetch : NickFetchFailed(f)
  \/ \E obj \in Objs, u \in Uids : MemberFetched(obj, u)
  \/ \E obj \in Objs, u \in Uids : MemberFetchFailed(obj, u)
  \/ \E msg \in uncaught : WindowError(msg)
  \/ \E rid \in Rids, u \in Uids, nick \in RemoteNicks : RemoteMemberSet(rid, u, nick)

Spec == Init /\ [][Next]_vars

(***************************************************************************)
(* The room registry: notifications of 'rooms', selection, deletion, with  *)
(* one account signing in and out.                                         *)
(***************************************************************************)
NextRegistry ==
  \/ \E u \in {"u1", NoUid} : AuthStateChanged(u)
  \/ \E rid \in Rids : RoomChildAdded(rid, FALSE)
  \/ \E rid \in Rids : RoomChildRemoved(rid)
  \/ RunUpdate
  \/ \E room \in Objs \cup {NoRoom} : SelectRoom(room, TRUE)
  \/ \E obj \in Objs : DeleteRoom(obj, TRUE)

SpecRegistry == Init /\ [][NextRegistry]_vars

InRegistry(room) == \E i \in 1..Len(rooms) : rooms[i] = room

\* C1: the registry never holds two Rooms with the same remote id (nor one
\* Room twice), and a child_added for an id the registry already holds
\* leaves the rooms list as it was.
C1_OneRoomPerId ==
  /\ [](\A i, j \in 1..Len(rooms) :
          i # j => /\ rooms[i] # rooms[j]
                   /\ heap[rooms[i]].rid # heap[rooms[j]].rid)
  /\ [][\A rid \in Rids :
          (RoomChildAdded(rid, FALSE) /\ findRoom(World, rid) # NoRoom)
            => rooms' = rooms]_vars

\* C1 witness: an id was added, removed and added again (two RoomImpl
\* objects were built for it) and the registry holds the second one only.
C1_Witness ==
  /\ Len(heap) = 2 /\ heap[1].rid = heap[2].rid
  /\ rooms = <<2>>

\* C2 as stated: the selected room is absent or an element of rooms.
C2_SelectedInRooms == currentRoom = NoRoom \/ InRegistry(currentRoom)

\* C3 as stated: a child_removed for an id removes the Room with that id and
\* deselects it if it was selected, and changes nothing for an unknown id;
\* and when it removes the room of an id whose selected room deleteRoom()
\* was called on, the selection is absent afterwards.
C3_RemovedDeselects ==
  [][\A rid \in Rids :
       RoomChildRemoved(rid) =>
         LET room == findRoom(World, rid)
         IN /\ room # NoRoom =>
                 /\ rooms' = splice(rooms, room)
                 /\ currentRoom' =
                      IF currentRoom = room THEN NoRoom ELSE currentRoom
            /\ room = NoRoom => UNCHANGED <<rooms, currentRoom>>
            /\ (/\ room # NoRoom
                /\ currentRoom # NoRoom
                /\ doomed = currentRoom
                /\ heap[currentRoom].rid = rid) => currentRoom' = NoRoom]_vars

(***************************************************************************)
(* The message log of one room: two accounts sign in and out, select the   *)
(* room and send; the store delivers each message any number of times, in  *)
(* any order; another client rewrites the membership record of u1.         *)
(***************************************************************************)
NextMessages ==
  \/ \E u \in Uids \cup {NoUid} : AuthStateChanged(u)
  \/ RoomChildAdded("r1", FALSE)
  \/ RunUpdate
  \/ \E room \in Objs \cup {NoRoom} : SelectRoom(room, TRUE)
  \/ \E obj \in Objs : SendMessage(obj, TRUE)
  \/ \E obj \in Objs : \E m \in messages[heap[obj].rid] : MessageChildAdded(obj, m)
  \/ \E f \in nickFetch : NickFetched(f)
  \/ \E nick \in RemoteNicks : RemoteMemberSet("r1", "u1", nick)

SpecMessages == Init /\ [][NextMessages]_vars

\* The message ids of a room's log, in log order.
MidsOf(h, obj) == [i \in 1..Len(h[obj].messages) |-> h[obj].messages[i].mid]

IsPrefix(s, t) == Len(s) <= Len(t) /\ SubSeq(t, 1, Len(s)) = s

\* The nickname reads of ensureMessage outstanding for an author in a room.
FetchesFor(obj, a) ==
  {f \in nickFetch : f[1] = obj /\ heap[obj].messages[f[2]].author = a}

\* C4: a room's log holds each delivered message id exactly once, in the
\* order of first arrival: ids in the log are distinct and are the ids
\* marked seen; no step reorders or drops entries; delivering an unseen id
\* appends it; delivering a seen id changes nothing and issues no read.
C4_OneMessagePerId ==
  /\ [](\A obj \in Objs :
          /\ \A i, j \in 1..Len(heap[obj].messages) :
               i # j => heap[obj].messages[i].mid # heap[obj].messages[j].mid
          /\ {heap[obj].messages[i].mid : i \in 1..Len(heap[obj].messages)}
               = heap[obj].hasMessage)
  /\ [][\A obj \in Objs : IsPrefix(MidsOf(heap, obj), MidsOf(heap', obj))]_vars
  /\ [][\A obj \in Objs : \A m \in messages[heap[obj].rid] :
          MessageChildAdded(obj, m) =>
            IF m.mid \in heap[obj].hasMessage
              THEN UNCHANGED <<heap, nickFetch, tasks, pendingUpdate, rooms,
                               currentRoom, latestError, members, messages>>
              ELSE MidsOf(heap', obj) = Append(MidsOf(heap, obj), m.mid)]_vars

\* C4 witness: a log of two messages that arrived against key order, the
\* second ingested with its author's nickname already cached.
C4_Witness ==
  \E obj \in Objs :
    /\ MidsOf(heap, obj) = <<2, 1>>
    /\ heap[obj].messages[1].lazy /\ ~heap[obj].messages[2].lazy

\* C8 as stated: per room and author at most one nickname read is
\* outstanding.
C8_OneFetchPerAuthor ==
  \A obj \in Objs : \A a \in Uids : Cardinality(FetchesFor(obj, a)) <= 1

\* C9 as stated: once the reads for an author have all completed and a
\* nickname is cached for the author, every message of that author that was
\* ingested before a nickname was cached shows the cached nickname.
C9_AllShowResolvedNickname ==
  \A obj \in Objs : \A a \in Uids :
    (FetchesFor(obj, a) = {} /\ heap[obj].nicknameOf[a] # NoNick) =>
      \A i \in 1..Len(heap[obj].messages) :
        (heap[obj].messages[i].author = a /\ heap[obj].messages[i].lazy)
          => heap[obj].messages[i].from = heap[obj].nicknameOf[a]

(***************************************************************************)
(* Notification: observers register and unregister while the state is      *)
(* changed by the UI, the identity stream and the store.                   *)
(***************************************************************************)
NextNotify ==
  \/ \E o \in Observers : Listen(o)
  \/ \E o \in Observers : Unlisten(o)
  \/ RunUpdate
  \/ \E u \in {"u1", NoUid} : AuthStateChanged(u)
  \/ RoomChildAdded("r1", FALSE)
  \/ RoomChildRemoved("r1")
  \/ \E room \in Objs \cup {NoRoom} : SelectRoom(room, TRUE)

SpecNotify == Init /\ [][NextNotify]_vars

\* The queued callback is a microtask: once queued it runs.
FairNotify == SpecNotify /\ WF_vars(RunUpdate)

\* C5: however many updateListeners calls are made before the queued
\* callback runs, exactly one callback is queued; when it runs, the
\* registered observer is invoked once, with getState() as it is then.
C5_Coalesced ==
  /\ [](/\ tasks <= 1
        /\ pendingUpdate <=> tasks = 1
        /\ calls >= 1 <=> tasks = 1)
  /\ [][RunUpdate =>
          /\ tasks' = 0 /\ calls' = 0
          /\ listener # NoListener =>
               invoked' = [to |-> listener,
                           snap |-> [nickname |-> nickname, rooms |-> rooms,
                                     currentRoom |-> currentRoom,
                                     latestError |-> latestError]]]_vars
  /\ [][~RunUpdate => invoked' = NoInvoke]_vars

\* C5 witness: an observer is registered, at least two calls were made since
\* the callback last ran, and one callback is queued.
C5_Witness ==
  listener # NoListener /\ calls >= 2 /\ tasks = 1 /\ Len(rooms) = 1

\* C6: only the observer most recently passed to listen() is ever invoked;
\* an observer that is registered and was not invoked since has a callback
\* queued; and it is eventually invoked with the state of that moment,
\* unless it is unregistered or replaced first.
C6_NewObserverNotified ==
  /\ [](invoked.to # NoListener =>
          /\ invoked.to = lastListened /\ invoked.to = listener
          /\ invoked.snap = getState(World))
  /\ []((listener # NoListener /\ ~greeted) => (pendingUpdate /\ tasks >= 1))
  /\ \A o \in Observers :
       (listener = o /\ ~greeted) ~> ((invoked.to = o /\ greeted) \/ listener # o)

\* C6 witness: o2 was registered after o1 and has just been invoked.
C6_Witness ==
  /\ "o1" \in handles /\ lastListened = "o2"
  /\ invoked.to = "o2" /\ greeted

(***************************************************************************)
(* Authentication: the methods that write to the store are called while    *)
(* signed in and while signed out, by callers that catch or do not catch.  *)
(***************************************************************************)
NextAuth ==
  \/ \E u \in {"u1", NoUid} : AuthStateChanged(u)
  \/ RoomChildAdded("r1", FALSE)
  \/ RunUpdate
  \/ \E room \in Objs \cup {NoRoom} : SelectRoom(room, TRUE)
  \/ \E rid \in Rids, caught \in BOOLEAN : CreateRoom(rid, caught)
  \/ \E c \in creating : RoomSetAcked(c)
  \/ \E c \in creating : MemberSetAcked(c)
  \/ \E obj \in Objs, caught \in BOOLEAN : SendMessage(obj, caught)
  \/ \E msg \in uncaught : WindowError(msg)

SpecAuth == Init /\ [][NextAuth]_vars

\* A call of sendMessage or createRoom made while the identity is absent.
SignedOutCall ==
  /\ uid = NoUid
  /\ \/ \E obj \in Objs, caught \in BOOLEAN : SendMessage(obj, caught)
     \/ \E rid \in Rids, caught \in BOOLEAN : CreateRoom(rid, caught)

\* C7: while the identity is absent, sendMessage and createRoom throw the
\* not-signed-in error before doing anything else: the call changes neither
\* the store (no push, no set, no pending write) nor the local state.
C7_SignedOutFailsFast ==
  /\ [](uid = NoUid =>
          /\ \A obj \in Objs :
               sendMessage(World, obj) = [World EXCEPT !.exc = ErrSend]
          /\ \A rid \in Rids :
               createRoom(World, rid) = [World EXCEPT !.exc = ErrCreate])
  /\ [][SignedOutCall =>
          UNCHANGED <<messages, nextMid, members, usedRids, creating,
                      nickname, rooms, currentRoom, latestError, heap,
                      pendingUpdate, tasks, uid>>]_vars

\* C7 witness: signed out with a room known, both calls have thrown to a
\* caller that did not catch, and nothing was written.
C7_Witness ==
  /\ uid = NoUid /\ Len(heap) >= 1
  /\ ErrSend \in uncaught /\ ErrCreate \in uncaught
  /\ creating = {} /\ nextMid = 1 /\ \A rid \in Rids : messages[rid] = {}

(***************************************************************************)
(* End to end: one user, one room, one observer; the store fails nowhere   *)
(* and every notification it owes is delivered.                            *)
(***************************************************************************)
NextEndToEnd ==
  \/ Listen("o1")
  \/ \E u \in {"u1", NoUid} : AuthStateChanged(u)
  \/ RoomChildAdded("r1", FALSE)
  \/ RunUpdate
  \/ \E room \in Objs \cup {NoRoom}, caught \in BOOLEAN : SelectRoom(room, caught)
  \/ \E msg \in uncaught : WindowError(msg)
  \/ \E obj \in Objs : SendMessage(obj, TRUE)
  \/ \E obj \in Objs : \E m \in messages[heap[obj].rid] : MessageChildAdded(obj, m)
  \/ \E f \in nickFetch : NickFetched(f)
  \/ \E obj \in Objs, u \in Uids : MemberFetched(obj, u)

SpecEndToEnd == Init /\ [][NextEndToEnd]_vars

\* The first child_added of a message for a room that listens.
Deliver ==
  \E obj \in Objs : \E m \in messages[heap[obj].rid] :
    m.mid \notin heap[obj].hasMessage /\ MessageChildAdded(obj, m)

\* Fair delivery: queued callbacks run, uncaught exceptions reach the window
\* listener, the store delivers every new message to a room that listens and
\* answers every read.
FairEndToEnd ==
  /\ SpecEndToEnd
  /\ WF_vars(RunUpdate)
  /\ WF_vars(\E msg \in uncaught : WindowError(msg))
  /\ WF_vars(Deliver)
  /\ WF_vars(\E f \in nickFetch : NickFetched(f))
  /\ WF_vars(\E obj \in Objs, u \in Uids : MemberFetched(obj, u))

\* The observer is being given a snapshot in which room obj holds message
\* mid shown under its sender's nickname.
Shown(obj, mid) ==
  /\ invoked.to # NoListener
  /\ \E k \in 1..Len(invoked.snap.rooms) : invoked.snap.rooms[k] = obj
  /\ \E i \in 1..Len(heap[obj].messages) :
       LET msg == heap[obj].messages[i]
       IN /\ msg.mid = mid
          /\ members[heap[obj].rid][msg.author] # NoMember
          /\ msg.from = members[heap[obj].rid][msg.author].nickname
          /\ msg.from # msg.author

\* The signed-in user has selected the registered room obj, an observer is
\* registered, and the store holds message mid sent by that user in it.
SentInSelected(obj, mid) ==
  /\ obj \in Objs /\ InRegistry(obj) /\ currentRoom = obj
  /\ listener # NoListener /\ uid # NoUid
  /\ [mid |-> mid, from |-> uid] \in messages[heap[obj].rid]

\* C10: in a behaviour where the signed-in user has a registered room
\* selected and has sent a message in it, the observer is at some point given
\* a snapshot that shows the message under the sender's nickname, whatever
\* the order of selecting and signing in was.
C10_SentMessageShown ==
  \A obj \in 1..MaxObjs, mid \in 1..MaxMsgs :
    (<>SentInSelected(obj, mid)) => <>(obj \in Objs /\ Shown(obj, mid))

(***************************************************************************)
(* Membership: the identity changes while rooms fetch their membership     *)
(* record; reads are answered late, or fail.                               *)
(***************************************************************************)
NextMembership ==
  \/ \E u \in Uids \cup {NoUid} : AuthStateChanged(u)
  \/ \E replay \in BOOLEAN : RoomChildAdded("r1", replay)
  \/ RunUpdate
  \/ \E room \in Objs \cup {NoRoom} : SelectRoom(room, TRUE)
  \/ \E obj \in Objs, u \in Uids : MemberFetched(obj, u)
  \/ \E obj \in Objs, u \in Uids : MemberFetchFailed(obj, u)

SpecMembership == Init /\ [][NextMembership]_vars

\* The membership state of a room object.
Unknown(h, obj) == h[obj].role = "" /\ h[obj].nickname = "unknown"

\* The membership of obj is what record says.
Resolved(h, obj, record) ==
  h[obj].role = record.role /\ h[obj].nickname = record.nickname

MembershipChanged(obj) ==
  heap'[obj].role # heap[obj].role \/ heap'[obj].nickname # heap[obj].nickname

\* C11: a room's membership is Unknown when the room is constructed, after
\* the identity became absent, after a membership fetch for the current
\* identity returned no record, and after such a fetch failed; it changes to
\* anything else only by a fetch for the current identity that returned a
\* record, and then to that record.
C11_MembershipStates ==
  /\ [][\A obj \in 1..Len(heap') : obj \notin Objs => Unknown(heap', obj)]_vars
  /\ [][AuthStateChanged(NoUid) => \A obj \in Objs : Unknown(heap', obj)]_vars
  /\ [][\A obj \in Objs :
          /\ uid # NoUid /\ memberFetch[obj][uid] > 0
          /\ members[heap[obj].rid][uid] = NoMember
          /\ MemberFetched(obj, uid)
          => Unknown(heap', obj)]_vars
  /\ [][\A obj \in Objs :
          /\ uid # NoUid /\ memberFetch[obj][uid] > 0
          /\ MemberFetchFailed(obj, uid)
          => Unknown(heap', obj)]_vars
  /\ [][\A obj \in Objs :
          MembershipChanged(obj) /\ ~Unknown(heap', obj)
          => /\ uid # NoUid /\ MemberFetched(obj, uid)
             /\ members[heap[obj].rid][uid] # NoMember
             /\ Resolved(heap', obj, members[heap[obj].rid][uid])]_vars

\* C12: selecting a room other than the current one writes a membership
\* record only if the room's membership is Unknown and an identity is
\* present, and then a 'member' record with the current nickname under the
\* current identity; otherwise nothing is written; in every case the
\* selection completes (message subscription started, notification
\* requested) and the room's local role and nickname are unchanged.
C12_EnsureMembership ==
  [][\A room \in Objs :
       (room # currentRoom /\ SelectRoom(room, TRUE)) =>
         /\ IF Unknown(heap, room) /\ uid # NoUid
              THEN members' =
                     [members EXCEPT ![heap[room].rid][uid] =
                        [nickname |-> nickname, role |-> "member"]]
              ELSE members' = members
         /\ currentRoom' = room
         /\ heap'[room].messageQuery
         /\ pendingUpdate' /\ tasks' = 1
         /\ heap'[room].role = heap[room].role
         /\ heap'[room].nickname = heap[room].nickname]_vars

(***************************************************************************)
(* Creation: createRoom chains run against a store that acknowledges or    *)
(* rejects each write, while the registry learns of the new rooms.         *)
(***************************************************************************)
NextCreate ==
  \/ \E u \in {"u1", NoUid} : AuthStateChanged(u)
  \/ \E rid \in Rids, replay \in BOOLEAN : RoomChildAdded(rid, replay)
  \/ RunUpdate
  \/ \E room \in Objs \cup {NoRoom} : SelectRoom(room, TRUE)
  \/ \E rid \in Rids : CreateRoom(rid, TRUE)
  \/ \E c \in creating : RoomSetAcked(c)
  \/ \E c \in creating : MemberSetAcked(c)
  \/ \E c \in creating : CreateFailed(c)
  \/ \E obj \in Objs, u \in Uids : MemberFetched(obj, u)

SpecCreate == Init /\ [][NextCreate]_vars

\* What .catch((error) => this.displayError(error)) leaves behind when the
\* chain c ends with the error msg: the error is reported, a notification
\* is queued, the selection is as it was and the chain is gone.
Reported(c, msg) ==
  /\ latestError' = msg
  /\ pendingUpdate' /\ tasks' = 1
  /\ currentRoom' = currentRoom
  /\ \A d \in creating' : d.rid # c.rid

\* C13: when the membership write of createRoom is rejected or cannot be
\* issued, or the room is not in the registry when that write is
\* acknowledged, the error is reported and a notification requested, the
\* chain ends without selecting a room and is never started again for that
\* room, and a later child_added still puts the room into the registry.
C13_CreateFailureReported ==
  /\ [][\A c \in creating :
          /\ CreateFailed(c) => Reported(c, ErrStore)
          /\ (c.stage = "room" /\ uid = NoUid /\ RoomSetAcked(c))
               => Reported(c, ErrPath)
          /\ (c.stage = "member" /\ findRoom(World, c.rid) = NoRoom
                /\ MemberSetAcked(c))
               => Reported(c, CantSelect[c.rid])]_vars
  /\ [][\A d \in creating' :
          \/ d.rid \notin usedRids
          \/ \E c \in creating : c.rid = d.rid]_vars
  /\ [](\A c \in creating : c.rid \in usedRids) /\ [][usedRids \subseteq usedRids']_vars
  /\ [][\A rid \in Rids :
          (\E replay \in BOOLEAN : RoomChildAdded(rid, replay))
          => \E i \in 1..Len(rooms') : heap'[rooms'[i]].rid = rid]_vars

\* C13 witness: the chain for r1 ended with the room missing from the
\* registry, nothing is selected, and the room has arrived since.
C13_Witness ==
  /\ latestError = CantSelect["r1"] /\ creating = {}
  /\ currentRoom = NoRoom /\ findRoom(World, "r1") # NoRoom

(***************************************************************************)
(* Store failures: reads and writes the engine started are rejected, or    *)
(* answer with no record.                                                  *)
(***************************************************************************)
NextFailures ==
  \/ \E u \in {"u1", NoUid} : AuthStateChanged(u)
  \/ RoomChildAdded("r1", TRUE)
  \/ RunUpdate
  \/ \E room \in Objs \cup {NoRoom} : SelectRoom(room, TRUE)
  \/ \E obj \in Objs : SendMessage(obj, TRUE)
  \/ \E obj \in Objs : \E m \in messages[heap[obj].rid] : MessageChildAdded(obj, m)
  \/ \E f \in nickFetch : NickFetched(f)
  \/ \E f \in nickFetch : NickFetchFailed(f)
  \/ \E obj \in Objs, u \in Uids : MemberFetchFailed(obj, u)
  \/ \E obj \in Objs : DeleteRoom(obj, FALSE)
  \/ \E rid \in Rids : RoomDeleteAcked(rid)
  \/ \E rid \in Rids : RoomDeleteFailed(rid)
  \/ \E msg \in uncaught : WindowError(msg)

SpecFailures == Init /\ [][NextFailures]_vars

\* The failure msg is captured: latestError holds it and a notification is
\* queued.
Captured(msg) == latestError' = msg /\ pendingUpdate' /\ tasks' = 1

\* C14: every failure of a store operation the engine started is captured:
\* the step in which the failure arrives sets latestError and requests a
\* notification, be it a rejected room-record deletion, a rejected
\* membership fetch, a rejected nickname fetch, or a nickname fetch that
\* returned no record.
C14_AsyncFailuresCaptured ==
  /\ [][\A rid \in Rids : RoomDeleteFailed(rid) => Captured(ErrStore)]_vars
  /\ [][\A obj \in Objs, u \in Uids :
          MemberFetchFailed(obj, u) => Captured(ErrStore)]_vars
  /\ [][\A f \in nickFetch : NickFetchFailed(f) => Captured(ErrStore)]_vars
  /\ [][\A f \in nickFetch :
          /\ members[heap[f[1]].rid][heap[f[1]].messages[f[2]].author] = NoMember
          /\ NickFetched(f)
          => Captured(ErrType)]_vars

(***************************************************************************)
(* Deletion: rooms with messages and membership records are deleted; the   *)
(* store accepts or rejects each of the deletions.                         *)
(***************************************************************************)
NextDelete ==
  \/ \E u \in {"u1", NoUid} : AuthStateChanged(u)
  \/ RoomChildAdded("r1", FALSE)
  \/ RunUpdate
  \/ \E room \in Objs \cup {NoRoom} : SelectRoom(room, TRUE)
  \/ \E obj \in Objs : SendMessage(obj, TRUE)
  \/ \E obj \in Objs, cleared \in BOOLEAN : DeleteRoom(obj, cleared)
  \/ \E rid \in Rids : RoomDeleteAcked(rid)
  \/ \E rid \in Rids : RoomDeleteFailed(rid)

SpecDelete == Init /\ [][NextDelete]_vars

\* C15: deleteRoom(room) asks for the message subtree to be cleared and for
\* the room record to be deleted, and touches no membership record; whether
\* or not the clearing is accepted, latestError is unchanged and the
\* room-record deletion is under way.  The membership subtree is deleted
\* only in the step in which the room-record deletion is acknowledged; when
\* that deletion is rejected, latestError is set, the membership records
\* stay and the deletion is over.
C15_DeleteOrder ==
  /\ [][\A obj \in Objs, cleared \in BOOLEAN :
          DeleteRoom(obj, cleared) =>
            /\ heap[obj].rid \in deleting'
            /\ messages'[heap[obj].rid] =
                 (IF cleared THEN {} ELSE messages[heap[obj].rid])
            /\ members' = members
            /\ latestError' = latestError
            /\ pendingUpdate' = pendingUpdate]_vars
  /\ [][\A rid \in Rids :
          members'[rid] # members[rid] /\ members'[rid] = [u \in Uids |-> NoMember]
          => rid \in deleting /\ RoomDeleteAcked(rid)]_vars
  /\ [][\A rid \in Rids :
          RoomDeleteFailed(rid) =>
            /\ latestError' = ErrStore /\ pendingUpdate'
            /\ members' = members
            /\ rid \notin deleting']_vars

\* C15 witness: a room-record deletion was rejected and reported, none is
\* under way, and r1's message and membership record are in the store.
C15_Witness ==
  /\ latestError = ErrStore /\ deleting = {}
  /\ messages["r1"] # {} /\ members["r1"]["u1"] # NoMember

\* C16: a membership fetch answered for a user other than the current one
\* changes no room's role or nickname, and while no user is signed in every
\* room's membership is Unknown.
C16_MembershipOfCurrentIdentity ==
  /\ [][\A obj \in Objs, u \in Uids :
          (u # uid /\ MemberFetched(obj, u)) => ~MembershipChanged(obj)]_vars
  /\ [](uid = NoUid => \A obj \in Objs : Unknown(heap, obj))

\* C17: when the membership write of createRoom is acknowledged, the room
\* is in the registry and the creator is still signed in, the selection
\* that ends the chain leaves the creator's record for the room with role
\* 'owner'.
C17_OwnerRecordKept ==
  [][\A c \in creating :
       /\ c.stage = "member" /\ uid = c.by
       /\ members[c.rid][c.by].role = "owner"
       /\ findRoom(World, c.rid) # NoRoom
       /\ MemberSetAcked(c)
       => members'[c.rid][c.by].role = "owner"]_vars

\* C18: with an observer registered, a child_removed notification that takes
\* a room out of the registry requests a notification: after it an update
\* callback is queued, so that the observer is handed the registry without
\* the room.
C18_RemovalNotified ==
  [][\A rid \in Rids :
       (listener # NoListener /\ findRoom(World, rid) # NoRoom
          /\ RoomChildRemoved(rid))
       => pendingUpdate' /\ tasks' = 1]_vars

\* C19: the closure listen(o) returned removes only o: called while another
\* observer is the registered one, it leaves that observer registered.
C19_UnlistenOnlyOwn ==
  [][\A o \in handles :
       (listener # NoListener /\ listener # o /\ Unlisten(o))
       => listener' = listener]_vars

\* C20: the first delivery of a message to a room requests a notification,
\* whether or not its author's nickname is cached: after the step the
\* message is in the room's log and an update callback is queued.
C20_IngestionNotified ==
  [][\A obj \in Objs : \A m \in messages[heap[obj].rid] :
       (m.mid \notin heap[obj].hasMessage /\ MessageChildAdded(obj, m))
       => /\ m.mid \in heap'[obj].hasMessage
          /\ pendingUpdate' /\ tasks' = 1]_vars

====
